---- MODULE Spec2Model ----
(***************************************************************************)
(* Model of the MIDI console demo programs of KodiStudios/midi-cpp-example. *)
(*                                                                          *)
(* Four translation units are modelled:                                     *)
(*   MidiCppConsole.cpp lines 1-248    MakeSendNoteMessage, SendMidiNote,   *)
(*        MakeSelectInstrumentMessage, SelectMidiInstrument, PlayNote,      *)
(*        Robust::VerifyLimit, Robust::SelectMidiInstrument,                *)
(*        Robust::SendMidiNote, Robust::PlayNote, main                      *)
(*   MidiCppConsole.cpp lines 250-404  VerifyLimit, SetMidiInstrument,      *)
(*        SendMidiNote, main (suffix _B)                                    *)
(*   unnamed/part_001                  SendMidiNote, SelectMidiInstrument,  *)
(*        main (suffix _P1)                                                 *)
(*   unnamed/part_002                  VerifyLimit, SetMidiInstrument,      *)
(*        SendMidiNote, main (suffix _P2)                                   *)
(*                                                                          *)
(* The platform (midiOutOpen, midiOutShortMsg, midiOutClose) is the         *)
(* environment: every call is recorded in `calls` with the status the       *)
(* platform returned.                                                       *)
(***************************************************************************)
EXTENDS Integers, Sequences, FiniteSets, TLC

VARIABLES
    entry,    \* which entry point runs: a main, or "caller" (one direct call of a sender)
    request,  \* the call a "caller" run makes: a send statement (NoRequest in a main)
    stack,    \* call stack, innermost frame last: [fn, pc, hMidiOut]
    session,  \* session[h]: state of the platform session behind handle h
    calls,    \* every platform call made so far, in order: [op, handle, arg, result]
    exc,      \* the exception in flight (NoException when none)
    exit      \* how the process ended: [kind |-> "running" | "returned" | "terminate"]

vars == <<entry, request, stack, session, calls, exc, exit>>

----------------------------------------------------------------------------
(* Bounds of the model. *)

\* Channel arguments 0..MaxChannelArg are tried on every sender (0..15 are in range).
MaxChannelArg == 17

\* The platform's failure statuses are 1..MaxErrorStatus.
MaxErrorStatus == 2

----------------------------------------------------------------------------
(* 8-bit arithmetic. *)

UInt8(x) == x % 256

RECURSIVE BitOr(_, _)
BitOr(a, b) ==
    IF a = 0 THEN b
    ELSE IF b = 0 THEN a
    ELSE (IF a % 2 = 1 \/ b % 2 = 1 THEN 1 ELSE 0) + 2 * BitOr(a \div 2, b \div 2)

\* uint8_t x = y << n
Shl8(y, n) == UInt8(y * (2 ^ n))

----------------------------------------------------------------------------
(* Midi message: union of BYTE bData[4] and DWORD dwData{0}. *)

\* bData after construction: dwData{0} zeroes all four bytes.
MidiMessage == <<0, 0, 0, 0>>

\* The DWORD that overlays bData[0..3] (little-endian, as on Windows).
DwData(bData) ==
    bData[1] + 256 * bData[2] + 65536 * bData[3] + 16777216 * bData[4]

\* Byte i (0..3) of a DWORD handed to midiOutShortMsg, as the device reads it.
MsgByte(dw, i) == (dw \div (256 ^ i)) % 256

HighNibble(b) == b \div 16
LowNibble(b) == b % 16

----------------------------------------------------------------------------
(* Exceptions. `what` is the text streamed into the std::stringstream,      *)
(* one element per << insertion; numbers are formatted in decimal.          *)

NoException == [type |-> "none", what |-> <<>>]

MMSYSERR_NOERROR == 0

ErrorStatuses == 1..MaxErrorStatus
Statuses == {MMSYSERR_NOERROR} \cup ErrorStatuses

\* Mutant of Robust::VerifyMidi: the status is read and dropped.
Robust_VerifyMidi_Ignored(midiFuncResult) == NoException

\* Robust::VerifyMidi macro (MidiCppConsole.cpp 146-156).
Robust_VerifyMidi(midiFuncResult) ==
    IF midiFuncResult # MMSYSERR_NOERROR
    THEN [type |-> "MidiException",
          what |-> <<"Midi Error: ", ToString(midiFuncResult)>>]
    ELSE NoException

\* VerifyMidi macro of MidiCppConsole.cpp 269-279: throws std::exception.
VerifyMidi_B(midiFuncResult) ==
    IF midiFuncResult # MMSYSERR_NOERROR
    THEN [type |-> "std::exception",
          what |-> <<"Midi Error: ", ToString(midiFuncResult)>>]
    ELSE NoException

\* VerifyMidi macro of part_002 31-41.
VerifyMidi_P2(midiFuncResult) ==
    IF midiFuncResult # MMSYSERR_NOERROR
    THEN [type |-> "MidiException",
          what |-> <<"Midi Error: ", ToString(midiFuncResult)>>]
    ELSE NoException

\* Mutant of Robust::VerifyLimit: the comparison is off by one.
Robust_VerifyLimit_OffByOne(currentValue, maxValue, valueName) ==
    IF currentValue > maxValue + 1
    THEN [type |-> "std::invalid_argument",
          what |-> <<valueName, " Current: ", ToString(currentValue),
                     " Max: ", ToString(maxValue)>>]
    ELSE NoException

\* Mutant of Robust::VerifyLimit: the message streams the maximum twice.
Robust_VerifyLimit_MaxTwice(currentValue, maxValue, valueName) ==
    IF currentValue > maxValue
    THEN [type |-> "std::invalid_argument",
          what |-> <<valueName, " Current: ", ToString(maxValue),
                     " Max: ", ToString(maxValue)>>]
    ELSE NoException

\* Robust::VerifyLimit (MidiCppConsole.cpp 160-168).
Robust_VerifyLimit(currentValue, maxValue, valueName) ==
    IF currentValue > maxValue
    THEN [type |-> "std::invalid_argument",
          what |-> <<valueName, " Current: ", ToString(currentValue),
                     " Max: ", ToString(maxValue)>>]
    ELSE NoException

\* VerifyLimit of MidiCppConsole.cpp 283-291: std::out_of_range, Max before Current.
VerifyLimit_B(currentValue, maxValue, valueName) ==
    IF currentValue > maxValue
    THEN [type |-> "std::out_of_range",
          what |-> <<valueName, " Max: ", ToString(maxValue),
                     " Current: ", ToString(currentValue)>>]
    ELSE NoException

\* VerifyLimit of part_002 45-53.
VerifyLimit_P2(currentValue, maxValue, valueName) ==
    IF currentValue > maxValue
    THEN [type |-> "std::invalid_argument",
          what |-> <<valueName, " Current: ", ToString(currentValue),
                     " Max: ", ToString(maxValue)>>]
    ELSE NoException

Thrown(e) == e.type # "none"

\* The first exception thrown by a sequence of checks run in order.
RECURSIVE FirstThrown(_)
FirstThrown(checks) ==
    IF checks = <<>> THEN NoException
    ELSE IF Thrown(Head(checks)) THEN Head(checks)
    ELSE FirstThrown(Tail(checks))

----------------------------------------------------------------------------
(* Platform call records. *)

NoHandle == 0

OpenCall(h, dev, r)    == [op |-> "midiOutOpen", handle |-> h, arg |-> dev, result |-> r]
ShortMsgCall(h, dw, r) == [op |-> "midiOutShortMsg", handle |-> h, arg |-> dw, result |-> r]
CloseCall(h, r)        == [op |-> "midiOutClose", handle |-> h, arg |-> 0, result |-> r]
SleepCall(ms)          == [op |-> "sleep_for", handle |-> NoHandle, arg |-> ms,
                           result |-> MMSYSERR_NOERROR]

\* What a sender does: the exception it leaves with and the platform calls it made.
Outcome(e, cs) == [exc |-> e, calls |-> cs]

----------------------------------------------------------------------------
(* MidiCppConsole.cpp lines 1-248: encoders and senders. *)

\* Mutant of MakeSendNoteMessage: pitch and velocity land in each other's byte.
MakeSendNoteMessage_Swapped(channel, pitch, velocity) ==
    LET statusByte == UInt8(BitOr(Shl8(9, 4), channel))
    IN  [MidiMessage EXCEPT ![1] = statusByte, ![2] = velocity, ![3] = pitch]

MakeSendNoteMessage(channel, pitch, velocity) ==
    LET NoteOnSignature == 9                          \* 0b1001
        statusByte0 == NoteOnSignature                \* 0b 0000 1001
        statusByte1 == Shl8(statusByte0, 4)           \* 0b 1001 0000
        statusByte  == UInt8(BitOr(statusByte1, channel))
    IN  [MidiMessage EXCEPT ![1] = statusByte, ![2] = pitch, ![3] = velocity]

SendMidiNote(hMidiOut, channel, pitch, velocity, midiFuncResult) ==
    LET midiMessage == MakeSendNoteMessage(channel, pitch, velocity)
    IN  \* the MMRESULT of midiOutShortMsg is discarded
        Outcome(NoException,
                <<ShortMsgCall(hMidiOut, DwData(midiMessage), midiFuncResult)>>)

\* Mutant of MakeSelectInstrumentMessage: the signature is shifted by 3 bits, not 4.
MakeSelectInstrumentMessage_Shift3(channel, instrument) ==
    LET statusByte == UInt8(BitOr(Shl8(12, 3), channel))
    IN  [MidiMessage EXCEPT ![1] = statusByte, ![2] = instrument]

MakeSelectInstrumentMessage(channel, instrument) ==
    LET SetInstrumentSignature == 12                  \* 0b1100
        statusByte0 == SetInstrumentSignature         \* 0b 0000 1100
        statusByte1 == Shl8(statusByte0, 4)           \* 0b 1100 0000
        statusByte  == UInt8(BitOr(statusByte1, channel))
    IN  [MidiMessage EXCEPT ![1] = statusByte, ![2] = instrument]

SelectMidiInstrument(hMidiOut, channel, instrument, midiFuncResult) ==
    LET midiMessage == MakeSelectInstrumentMessage(channel, instrument)
    IN  Outcome(NoException,
                <<ShortMsgCall(hMidiOut, DwData(midiMessage), midiFuncResult)>>)

Robust_SelectMidiInstrument(hMidiOut, channel, instrument, midiFuncResult) ==
    LET limit == FirstThrown(<<Robust_VerifyLimit(channel, 15, "Channel"),
                               Robust_VerifyLimit(instrument, 127, "Instrument")>>)
        midiMessage == MakeSelectInstrumentMessage(channel, instrument)
    IN  IF Thrown(limit) THEN Outcome(limit, <<>>)
        ELSE Outcome(Robust_VerifyMidi(midiFuncResult),
                     <<ShortMsgCall(hMidiOut, DwData(midiMessage), midiFuncResult)>>)

\* Mutant of Robust::SendMidiNote: the message is handed to the platform before the
\* limits are verified.
Robust_SendMidiNote_SendFirst(hMidiOut, channel, pitch, velocity, midiFuncResult) ==
    LET limit == FirstThrown(<<Robust_VerifyLimit(channel, 15, "Channel"),
                               Robust_VerifyLimit(pitch, 127, "Pitch"),
                               Robust_VerifyLimit(velocity, 127, "Velocity")>>)
        midiMessage == MakeSendNoteMessage(channel, pitch, velocity)
        sent == <<ShortMsgCall(hMidiOut, DwData(midiMessage), midiFuncResult)>>
    IN  IF Thrown(limit) THEN Outcome(limit, sent)
        ELSE Outcome(Robust_VerifyMidi(midiFuncResult), sent)

\* Mutant of Robust::SendMidiNote: the pitch is verified before the channel.
Robust_SendMidiNote_PitchFirst(hMidiOut, channel, pitch, velocity, midiFuncResult) ==
    LET limit == FirstThrown(<<Robust_VerifyLimit(pitch, 127, "Pitch"),
                               Robust_VerifyLimit(channel, 15, "Channel"),
                               Robust_VerifyLimit(velocity, 127, "Velocity")>>)
        midiMessage == MakeSendNoteMessage(channel, pitch, velocity)
    IN  IF Thrown(limit) THEN Outcome(limit, <<>>)
        ELSE Outcome(Robust_VerifyMidi(midiFuncResult),
                     <<ShortMsgCall(hMidiOut, DwData(midiMessage), midiFuncResult)>>)

Robust_SendMidiNote(hMidiOut, channel, pitch, velocity, midiFuncResult) ==
    LET limit == FirstThrown(<<Robust_VerifyLimit(channel, 15, "Channel"),
                               Robust_VerifyLimit(pitch, 127, "Pitch"),
                               Robust_VerifyLimit(velocity, 127, "Velocity")>>)
        midiMessage == MakeSendNoteMessage(channel, pitch, velocity)
    IN  IF Thrown(limit) THEN Outcome(limit, <<>>)
        ELSE Outcome(Robust_VerifyMidi(midiFuncResult),
                     <<ShortMsgCall(hMidiOut, DwData(midiMessage), midiFuncResult)>>)

----------------------------------------------------------------------------
(* MidiCppConsole.cpp lines 250-404: senders that validate and encode inline. *)

SetMidiInstrument_B(midiOut, channel, instrument, midiFuncResult) ==
    LET limit == FirstThrown(<<VerifyLimit_B(channel, 15, "Channel"),
                               VerifyLimit_B(instrument, 127, "Instrument")>>)
        SetInstrumentSignature == 12
        statusByte0 == Shl8(SetInstrumentSignature, 4)
        statusByte  == UInt8(BitOr(statusByte0, channel))
        midiData == [MidiMessage EXCEPT ![1] = statusByte, ![2] = instrument]
    IN  IF Thrown(limit) THEN Outcome(limit, <<>>)
        ELSE Outcome(VerifyMidi_B(midiFuncResult),
                     <<ShortMsgCall(midiOut, DwData(midiData), midiFuncResult)>>)

SendMidiNote_B(midiOut, channel, pitch, velocity, midiFuncResult) ==
    LET limit == FirstThrown(<<VerifyLimit_B(channel, 15, "Channel"),
                               VerifyLimit_B(pitch, 127, "Pitch"),
                               VerifyLimit_B(velocity, 127, "Velocity")>>)
        NoteOnSignature == 9
        statusByte0 == Shl8(NoteOnSignature, 4)
        statusByte  == UInt8(BitOr(statusByte0, channel))
        midiData == [MidiMessage EXCEPT ![1] = statusByte, ![2] = pitch, ![3] = velocity]
    IN  IF Thrown(limit) THEN Outcome(limit, <<>>)
        ELSE Outcome(VerifyMidi_B(midiFuncResult),
                     <<ShortMsgCall(midiOut, DwData(midiData), midiFuncResult)>>)

----------------------------------------------------------------------------
(* unnamed/part_001: unchecked senders that encode inline. *)

SendMidiNote_P1(hMidiOut, channel, pitch, velocity, midiFuncResult) ==
    LET NoteOnSignature == 9
        statusByte0 == NoteOnSignature
        statusByte1 == Shl8(statusByte0, 4)
        statusByte  == UInt8(BitOr(statusByte1, channel))
        midiMessage == [MidiMessage EXCEPT ![1] = statusByte, ![2] = pitch, ![3] = velocity]
    IN  Outcome(NoException,
                <<ShortMsgCall(hMidiOut, DwData(midiMessage), midiFuncResult)>>)

SelectMidiInstrument_P1(hMidiOut, channel, instrument, midiFuncResult) ==
    LET SetInstrumentSignature == 12
        statusByte0 == SetInstrumentSignature
        statusByte1 == Shl8(statusByte0, 4)
        statusByte  == UInt8(BitOr(statusByte1, channel))
        midiMessage == [MidiMessage EXCEPT ![1] = statusByte, ![2] = instrument]
    IN  Outcome(NoException,
                <<ShortMsgCall(hMidiOut, DwData(midiMessage), midiFuncResult)>>)

----------------------------------------------------------------------------
(* unnamed/part_002: senders that validate and encode inline. *)

SetMidiInstrument_P2(hMidiOut, channel, instrument, midiFuncResult) ==
    LET limit == FirstThrown(<<VerifyLimit_P2(channel, 15, "Channel"),
                               VerifyLimit_P2(instrument, 127, "Instrument")>>)
        SetInstrumentSignature == 12
        statusByte0 == Shl8(SetInstrumentSignature, 4)
        statusByte  == UInt8(BitOr(statusByte0, channel))
        midiData == [MidiMessage EXCEPT ![1] = statusByte, ![2] = instrument]
    IN  IF Thrown(limit) THEN Outcome(limit, <<>>)
        ELSE Outcome(VerifyMidi_P2(midiFuncResult),
                     <<ShortMsgCall(hMidiOut, DwData(midiData), midiFuncResult)>>)

SendMidiNote_P2(hMidiOut, channel, pitch, velocity, midiFuncResult) ==
    LET limit == FirstThrown(<<VerifyLimit_P2(channel, 15, "Channel"),
                               VerifyLimit_P2(pitch, 127, "Pitch"),
                               VerifyLimit_P2(velocity, 127, "Velocity")>>)
        NoteOnSignature == 9
        statusByte0 == Shl8(NoteOnSignature, 4)
        statusByte  == UInt8(BitOr(statusByte0, channel))
        midiData == [MidiMessage EXCEPT ![1] = statusByte, ![2] = pitch, ![3] = velocity]
    IN  IF Thrown(limit) THEN Outcome(limit, <<>>)
        ELSE Outcome(VerifyMidi_P2(midiFuncResult),
                     <<ShortMsgCall(hMidiOut, DwData(midiData), midiFuncResult)>>)

\* Dispatch of a call statement to the sender it names; args = <<channel, data...>>.
CallSender(fn, h, args, r) ==
    CASE fn = "SendMidiNote"                -> SendMidiNote(h, args[1], args[2], args[3], r)
      [] fn = "SelectMidiInstrument"        -> SelectMidiInstrument(h, args[1], args[2], r)
      [] fn = "Robust::SendMidiNote"        -> Robust_SendMidiNote(h, args[1], args[2], args[3], r)
      [] fn = "Robust::SelectMidiInstrument" -> Robust_SelectMidiInstrument(h, args[1], args[2], r)
      [] fn = "SendMidiNote_B"              -> SendMidiNote_B(h, args[1], args[2], args[3], r)
      [] fn = "SetMidiInstrument_B"         -> SetMidiInstrument_B(h, args[1], args[2], r)
      [] fn = "SendMidiNote_P1"             -> SendMidiNote_P1(h, args[1], args[2], args[3], r)
      [] fn = "SelectMidiInstrument_P1"     -> SelectMidiInstrument_P1(h, args[1], args[2], r)
      [] fn = "SendMidiNote_P2"             -> SendMidiNote_P2(h, args[1], args[2], args[3], r)
      [] fn = "SetMidiInstrument_P2"        -> SetMidiInstrument_P2(h, args[1], args[2], r)

NoteSenders == {"SendMidiNote", "Robust::SendMidiNote", "SendMidiNote_B",
                "SendMidiNote_P1", "SendMidiNote_P2"}
InstrumentSenders == {"SelectMidiInstrument", "Robust::SelectMidiInstrument",
                      "SetMidiInstrument_B", "SelectMidiInstrument_P1",
                      "SetMidiInstrument_P2"}
\* Senders that call VerifyLimit and VerifyMidi.
CheckedSenders == {"Robust::SendMidiNote", "Robust::SelectMidiInstrument",
                   "SendMidiNote_B", "SetMidiInstrument_B",
                   "SendMidiNote_P2", "SetMidiInstrument_P2"}

----------------------------------------------------------------------------
(* Statements of the function bodies. *)

\* midiOutOpen(&hMidiOut, /*uDeviceID*/ 0, NULL, NULL, CALLBACK_NULL), bare or in a VerifyMidi
OpenStmt(verify)   == [op |-> "midiOutOpen", uDeviceID |-> 0, verify |-> verify]
SendStmt(fn, args) == [op |-> "send", fn |-> fn, args |-> args]
SleepStmt(ms)      == [op |-> "sleep_for", ms |-> ms]
CloseStmt(verify)  == [op |-> "midiOutClose", verify |-> verify]
CallStmt(fn)       == [op |-> "call", fn |-> fn]
ReturnStmt(code)   == [op |-> "return", code |-> code]

\* The exception a platform status raises at a call site: none where the call is bare.
Verify(verify, midiFuncResult) ==
    CASE verify = "Robust::VerifyMidi" -> Robust_VerifyMidi(midiFuncResult)
      [] verify = "VerifyMidi_B"       -> VerifyMidi_B(midiFuncResult)
      [] verify = "VerifyMidi_P2"      -> VerifyMidi_P2(midiFuncResult)
      [] verify = "unchecked"          -> NoException

\* Mutant of PlayNote: the unchecked path selects the guitar.
PlayNote_Guitar ==
    << OpenStmt("unchecked"),
       SendStmt("SelectMidiInstrument", <<0, 24>>),
       SendStmt("SendMidiNote", <<0, 60, 127>>),
       SleepStmt(3000),
       SendStmt("SendMidiNote", <<0, 60, 0>>),
       CloseStmt("unchecked") >>

\* Mutant of PlayNote: the note is silenced before the delay.
PlayNote_SilenceBeforeDelay ==
    << OpenStmt("unchecked"),
       SendStmt("SelectMidiInstrument", <<0, 0>>),
       SendStmt("SendMidiNote", <<0, 60, 127>>),
       SendStmt("SendMidiNote", <<0, 60, 0>>),
       SleepStmt(3000),
       CloseStmt("unchecked") >>

\* MidiCppConsole.cpp 111-131
PlayNote ==
    << OpenStmt("unchecked"),
       SendStmt("SelectMidiInstrument", <<0, 0>>),
       SendStmt("SendMidiNote", <<0, 60, 127>>),
       SleepStmt(3000),
       SendStmt("SendMidiNote", <<0, 60, 0>>),
       CloseStmt("unchecked") >>

\* Mutant of Robust::PlayNote: the note is never silenced.
Robust_PlayNote_NoSilence ==
    << OpenStmt("Robust::VerifyMidi"),
       SendStmt("Robust::SelectMidiInstrument", <<0, 0>>),
       SendStmt("Robust::SendMidiNote", <<0, 60, 127>>),
       SleepStmt(3000),
       CloseStmt("Robust::VerifyMidi") >>

\* MidiCppConsole.cpp 212-240 (the try block; the handler is Handler below)
Robust_PlayNote ==
    << OpenStmt("Robust::VerifyMidi"),
       SendStmt("Robust::SelectMidiInstrument", <<0, 0>>),
       SendStmt("Robust::SendMidiNote", <<0, 60, 127>>),
       SleepStmt(3000),
       SendStmt("Robust::SendMidiNote", <<0, 60, 0>>),
       CloseStmt("Robust::VerifyMidi") >>

\* MidiCppConsole.cpp 243-248
main ==
    << CallStmt("Robust::PlayNote"),
       CallStmt("PlayNote"),
       ReturnStmt(0) >>

\* MidiCppConsole.cpp 368-404
main_B ==
    << OpenStmt("VerifyMidi_B"),
       SendStmt("SetMidiInstrument_B", <<0, 0>>),
       SendStmt("SetMidiInstrument_B", <<1, 24>>),
       SendStmt("SendMidiNote_B", <<0, 60, 127>>),
       SleepStmt(3000),
       SendStmt("SendMidiNote_B", <<0, 60, 0>>),
       SendStmt("SendMidiNote_B", <<1, 60, 127>>),
       SleepStmt(3000),
       SendStmt("SendMidiNote_B", <<1, 60, 0>>),
       CloseStmt("VerifyMidi_B"),
       ReturnStmt(0) >>

\* unnamed/part_001 90-127
main_P1 ==
    << OpenStmt("unchecked"),
       SendStmt("SelectMidiInstrument_P1", <<0, 24>>),
       SendStmt("SendMidiNote_P1", <<0, 60, 90>>),
       SleepStmt(2000),
       SendStmt("SendMidiNote_P1", <<0, 60, 0>>),
       CloseStmt("unchecked"),
       ReturnStmt(0) >>

\* unnamed/part_002 130-166
main_P2 ==
    << OpenStmt("VerifyMidi_P2"),
       SendStmt("SetMidiInstrument_P2", <<0, 0>>),
       SendStmt("SetMidiInstrument_P2", <<1, 24>>),
       SendStmt("SendMidiNote_P2", <<0, 60, 127>>),
       SleepStmt(3000),
       SendStmt("SendMidiNote_P2", <<0, 60, 0>>),
       SendStmt("SendMidiNote_P2", <<1, 60, 127>>),
       SleepStmt(3000),
       SendStmt("SendMidiNote_P2", <<1, 60, 0>>),
       CloseStmt("VerifyMidi_P2"),
       ReturnStmt(0) >>

Body(fn) ==
    CASE fn = "caller"           -> <<request>>
      [] fn = "retrier"          -> <<request.first, request.then>>
      [] fn = "PlayNote"         -> PlayNote
      [] fn = "Robust::PlayNote" -> Robust_PlayNote
      [] fn = "main"             -> main
      [] fn = "main_B"           -> main_B
      [] fn = "main_P1"          -> main_P1
      [] fn = "main_P2"          -> main_P2

\* What the catch (const std::exception&) block of a function does with the exception.
Handler(fn) ==
    CASE fn = "Robust::PlayNote" -> "throw"      \* MidiCppConsole.cpp 235-239
      [] fn = "main_B"           -> "return 1"   \* MidiCppConsole.cpp 397-401
      [] fn = "main_P2"          -> "throw"      \* part_002 159-163
      [] fn = "retrier"          -> "continue"
      [] OTHER                   -> "none"

Mains == {"main", "main_B", "main_P1", "main_P2"}

----------------------------------------------------------------------------
(* Arguments tried in a direct call of a sender: uint8_t values in and out of range. *)

ChannelArgs    == (0..MaxChannelArg) \cup {32, 255}
PitchArgs      == {0, 60, 127, 128, 255}
VelocityArgs   == {0, 90, 127, 128, 255}
InstrumentArgs == {0, 24, 127, 128, 255}

\* Every value a uint8_t parameter can hold.
UInt8Values == 0..255

\* The calls tried: every combination of the values above, and every uint8_t value
\* of each parameter in turn with the others as PlayNote passes them.
SenderCalls ==
    {SendStmt(fn, <<c, p, v>>) :
        fn \in NoteSenders, c \in ChannelArgs, p \in PitchArgs, v \in VelocityArgs}
    \cup
    {SendStmt(fn, <<c, i>>) :
        fn \in InstrumentSenders, c \in ChannelArgs, i \in InstrumentArgs}
    \cup
    {SendStmt(fn, args) :
        fn \in NoteSenders,
        args \in {<<x, 60, 127>> : x \in UInt8Values}
                 \cup {<<0, x, 127>> : x \in UInt8Values}
                 \cup {<<0, 60, x>> : x \in UInt8Values}}
    \cup
    {SendStmt(fn, args) :
        fn \in InstrumentSenders,
        args \in {<<x, 0>> : x \in UInt8Values} \cup {<<0, x>> : x \in UInt8Values}}

\* A checked sender called with each combination of the values above, followed by a
\* second call of the same sender with arguments in range.
InRangeArgs(fn) ==
    IF fn \in NoteSenders THEN {<<0, 60, 0>>, <<15, 127, 127>>}
    ELSE {<<0, 0>>, <<15, 127>>}

CheckedCalls ==
    {SendStmt(fn, <<c, p, v>>) :
        fn \in NoteSenders \cap CheckedSenders,
        c \in ChannelArgs, p \in PitchArgs, v \in VelocityArgs}
    \cup
    {SendStmt(fn, <<c, i>>) :
        fn \in InstrumentSenders \cap CheckedSenders,
        c \in ChannelArgs, i \in InstrumentArgs}

RetryCalls ==
    UNION {{[op |-> "pair", first |-> s, then |-> SendStmt(s.fn, a)] :
               a \in InRangeArgs(s.fn)} : s \in CheckedCalls}

----------------------------------------------------------------------------
(* State. *)

Frame(fn, h) == [fn |-> fn, pc |-> 1, hMidiOut |-> h]

NoRequest == [op |-> "none"]

Running == exit.kind = "running" /\ stack # <<>>
Top     == stack[Len(stack)]
Stmt    == Body(Top.fn)[Top.pc]

AtStmt(op) ==
    /\ Running
    /\ ~Thrown(exc)
    /\ Top.pc <= Len(Body(Top.fn))
    /\ Stmt.op = op

IsOpen(h) == h \in 1..Len(session) /\ session[h] = "Open"

\* HMIDIOUT hMidiOut; is not initialized: it holds no handle, or whatever an earlier
\* frame left in its place on the stack.
Indeterminate == {NoHandle} \cup (1..Len(session))

\* What the platform may answer to a call on handle h: it succeeds only on an open session.
PlatformResults(h) == IF IsOpen(h) THEN Statuses ELSE ErrorStatuses

InitMain ==
    /\ entry \in Mains
    /\ request = NoRequest
    /\ stack = <<Frame(entry, NoHandle)>>
    /\ session = <<>>
    /\ calls = <<>>

\* A caller that holds an open session and calls one sender once.
InitCaller ==
    /\ entry = "caller"
    /\ request \in SenderCalls
    /\ stack = <<Frame("caller", 1)>>
    /\ session = <<"Open">>
    /\ calls = <<OpenCall(1, 0, MMSYSERR_NOERROR)>>

\* A caller that holds an open session, calls one checked sender, catches what it
\* throws, and calls the sender again.
InitRetrier ==
    /\ entry = "retrier"
    /\ request \in RetryCalls
    /\ stack = <<Frame("retrier", 1)>>
    /\ session = <<"Open">>
    /\ calls = <<OpenCall(1, 0, MMSYSERR_NOERROR)>>

Init ==
    /\ InitMain \/ InitCaller \/ InitRetrier
    /\ exc = NoException
    /\ exit = [kind |-> "running"]

----------------------------------------------------------------------------
(* Steps. *)

MidiOutOpen ==
    /\ AtStmt("midiOutOpen")
    /\ \E midiFuncResult \in Statuses :
         LET ok == midiFuncResult = MMSYSERR_NOERROR
             h  == Len(session) + 1
             e  == Verify(Stmt.verify, midiFuncResult)
         IN  /\ session' = IF ok THEN Append(session, "Open") ELSE session
             /\ calls' = Append(calls, OpenCall(IF ok THEN h ELSE NoHandle,
                                                Stmt.uDeviceID, midiFuncResult))
             /\ exc' = e
             /\ stack' = IF Thrown(e) THEN stack
                         ELSE [stack EXCEPT ![Len(stack)] =
                                 [@ EXCEPT !.pc = @ + 1,
                                           !.hMidiOut = IF ok THEN h ELSE @]]
    /\ UNCHANGED <<entry, request, exit>>

Send ==
    /\ AtStmt("send")
    /\ \E midiFuncResult \in PlatformResults(Top.hMidiOut) :
         LET out == CallSender(Stmt.fn, Top.hMidiOut, Stmt.args, midiFuncResult)
         IN  /\ calls' = calls \o out.calls
             /\ exc' = out.exc
             /\ stack' = IF Thrown(out.exc) THEN stack
                         ELSE [stack EXCEPT ![Len(stack)].pc = @ + 1]
    /\ UNCHANGED <<entry, request, session, exit>>

Sleep ==
    /\ AtStmt("sleep_for")
    /\ calls' = Append(calls, SleepCall(Stmt.ms))
    /\ stack' = [stack EXCEPT ![Len(stack)].pc = @ + 1]
    /\ UNCHANGED <<entry, request, session, exc, exit>>

MidiOutClose ==
    /\ AtStmt("midiOutClose")
    /\ \E midiFuncResult \in PlatformResults(Top.hMidiOut) :
         LET ok == midiFuncResult = MMSYSERR_NOERROR
             h  == Top.hMidiOut
             e  == Verify(Stmt.verify, midiFuncResult)
         IN  /\ session' = IF ok THEN [session EXCEPT ![h] = "Closed"] ELSE session
             /\ calls' = Append(calls, CloseCall(h, midiFuncResult))
             /\ exc' = e
             /\ stack' = IF Thrown(e) THEN stack
                         ELSE [stack EXCEPT ![Len(stack)].pc = @ + 1]
    /\ UNCHANGED <<entry, request, exit>>

\* main calls PlayNote / Robust::PlayNote: a new frame whose hMidiOut is indeterminate.
Call ==
    /\ AtStmt("call")
    /\ \E h \in Indeterminate :
         stack' = Append([stack EXCEPT ![Len(stack)].pc = @ + 1],
                         Frame(Stmt.fn, h))
    /\ UNCHANGED <<entry, request, session, calls, exc, exit>>

\* A void function runs off its end and returns to its caller.
FunctionEnd ==
    /\ Running
    /\ ~Thrown(exc)
    /\ Len(stack) > 1
    /\ Top.pc > Len(Body(Top.fn))
    /\ stack' = SubSeq(stack, 1, Len(stack) - 1)
    /\ UNCHANGED <<entry, request, session, calls, exc, exit>>

\* return <code>; in main
Return ==
    /\ AtStmt("return")
    /\ exit' = [kind |-> "returned", code |-> Stmt.code]
    /\ stack' = <<>>
    /\ UNCHANGED <<entry, request, session, calls, exc>>

\* catch (const std::exception& e) { ...; return 1; }
CatchReturn ==
    /\ Running
    /\ Thrown(exc)
    /\ Handler(Top.fn) = "return 1"
    /\ exit' = [kind |-> "returned", code |-> 1]
    /\ exc' = NoException
    /\ stack' = <<>>
    /\ UNCHANGED <<entry, request, session, calls>>

\* catch (const std::exception& e) { ... } after which the caller goes on.
CatchContinue ==
    /\ Running
    /\ Thrown(exc)
    /\ Handler(Top.fn) = "continue"
    /\ exc' = NoException
    /\ stack' = [stack EXCEPT ![Len(stack)].pc = @ + 1]
    /\ UNCHANGED <<entry, request, session, calls, exit>>

\* The exception leaves a called function (after catch { ...; throw; }, or uncaught).
Propagate ==
    /\ Running
    /\ Thrown(exc)
    /\ Handler(Top.fn) \in {"throw", "none"}
    /\ Len(stack) > 1
    /\ stack' = SubSeq(stack, 1, Len(stack) - 1)
    /\ UNCHANGED <<entry, request, session, calls, exc, exit>>

\* The exception leaves main: std::terminate.
Terminate ==
    /\ Running
    /\ Thrown(exc)
    /\ Handler(Top.fn) \in {"throw", "none"}
    /\ Len(stack) = 1
    /\ Top.fn \in Mains
    /\ exit' = [kind |-> "terminate"]
    /\ stack' = <<>>
    /\ UNCHANGED <<entry, request, session, calls, exc>>

Next ==
    \/ MidiOutOpen
    \/ Send
    \/ Sleep
    \/ MidiOutClose
    \/ Call
    \/ FunctionEnd
    \/ Return
    \/ CatchReturn
    \/ CatchContinue
    \/ Propagate
    \/ Terminate

Spec == Init /\ [][Next]_vars

----------------------------------------------------------------------------
(* Vocabulary of the properties. *)

\* The midiOutShortMsg calls made so far, in order.
ShortMsgs == SelectSeq(calls, LAMBDA c : c.op = "midiOutShortMsg")

\* The one call a "caller" run makes, and whether it has been made.
CallerStmt == request
CallerDone == entry = "caller" /\ (stack[1].pc > 1 \/ Thrown(exc))

\* Permitted maximum and name of each argument: channel, then the 7-bit data fields.
ArgMax(k) == IF k = 1 THEN 15 ELSE 127
ArgName(fn, k) ==
    IF k = 1 THEN "Channel"
    ELSE IF fn \in InstrumentSenders THEN "Instrument"
    ELSE IF k = 2 THEN "Pitch" ELSE "Velocity"

InRange(args)  == \A k \in 1..Len(args) : args[k] <= ArgMax(k)

RangeErrors == {"std::invalid_argument", "std::out_of_range"}

\* C1: for channel in 0..15 and pitch, velocity in 0..127, a note sender hands
\* midiOutShortMsg exactly one message, whose bytes are
\* [0x90 | channel, pitch, velocity, 0]: byte 0 has high nibble 0x9 and low nibble
\* channel, byte 1 is pitch, byte 2 is velocity, byte 3 is 0; (0, 60, 127) gives
\* [0x90, 0x3C, 0x7F, 0x00].
C1_NoteMessageBytes ==
    (CallerDone /\ CallerStmt.fn \in NoteSenders /\ InRange(CallerStmt.args)) =>
        /\ Len(ShortMsgs) = 1
        /\ LET dw == ShortMsgs[1].arg
               a  == CallerStmt.args
           IN  /\ MsgByte(dw, 0) = 144 + a[1]
               /\ HighNibble(MsgByte(dw, 0)) = 9
               /\ LowNibble(MsgByte(dw, 0)) = a[1]
               /\ MsgByte(dw, 1) = a[2]
               /\ MsgByte(dw, 2) = a[3]
               /\ MsgByte(dw, 3) = 0
               /\ (a = <<0, 60, 127>> => dw = 8338576)

\* C1 witness: Robust::SendMidiNote(h, 15, 60, 127) has transmitted its message.
C1_Witness ==
    /\ CallerDone
    /\ CallerStmt = SendStmt("Robust::SendMidiNote", <<15, 60, 127>>)
    /\ Len(ShortMsgs) = 1
    /\ ShortMsgs[1].result = MMSYSERR_NOERROR

\* C2: for channel in 0..15 and program in 0..127, an instrument sender hands
\* midiOutShortMsg exactly one message, whose bytes are [0xC0 | channel, program, 0, 0];
\* (1, 24) gives [0xC1, 0x18, 0x00, 0x00].
C2_ProgramChangeBytes ==
    (CallerDone /\ CallerStmt.fn \in InstrumentSenders /\ InRange(CallerStmt.args)) =>
        /\ Len(ShortMsgs) = 1
        /\ LET dw == ShortMsgs[1].arg
               a  == CallerStmt.args
           IN  /\ MsgByte(dw, 0) = 192 + a[1]
               /\ HighNibble(MsgByte(dw, 0)) = 12
               /\ LowNibble(MsgByte(dw, 0)) = a[1]
               /\ MsgByte(dw, 1) = a[2]
               /\ MsgByte(dw, 2) = 0
               /\ MsgByte(dw, 3) = 0
               /\ (a = <<1, 24>> => dw = 6337)

\* C2 witness: Robust::SelectMidiInstrument(h, 1, 24) has transmitted its message.
C2_Witness ==
    /\ CallerDone
    /\ CallerStmt = SendStmt("Robust::SelectMidiInstrument", <<1, 24>>)
    /\ Len(ShortMsgs) = 1
    /\ ShortMsgs[1].result = MMSYSERR_NOERROR

\* C3: on a checked sender, when channel > 15 or a data field > 127 the call ends
\* with a range error and midiOutShortMsg is never invoked.
C3_RangeErrorNoSend ==
    (entry = "caller" /\ CallerStmt.fn \in CheckedSenders /\ ~InRange(CallerStmt.args)) =>
        /\ ShortMsgs = <<>>
        /\ CallerDone => exc.type \in RangeErrors

\* C3 witness: Robust::SendMidiNote(h, 0, 60, 128) was rejected for its velocity.
C3_Witness ==
    /\ CallerDone
    /\ CallerStmt = SendStmt("Robust::SendMidiNote", <<0, 60, 128>>)
    /\ exc.type = "std::invalid_argument"

\* The text that follows `label` in an exception's message.
Labelled(what, label, text) ==
    \E j \in 1..(Len(what) - 1) : what[j] = label /\ what[j + 1] = text

\* C5: a range error names a violating field, its offending value and the permitted
\* maximum (15 for channel, 127 for pitch, velocity, instrument); a note with channel
\* 16, pitch 60, velocity 127 fails with (Channel, 16, 15).
C5_RangeErrorIdentifiesField ==
    (CallerDone /\ exc.type \in RangeErrors) =>
        LET a  == CallerStmt.args
            fn == CallerStmt.fn
        IN  /\ \E k \in 1..Len(a) :
                 /\ a[k] > ArgMax(k)
                 /\ exc.what[1] = ArgName(fn, k)
                 /\ Labelled(exc.what, " Current: ", ToString(a[k]))
                 /\ Labelled(exc.what, " Max: ", ToString(ArgMax(k)))
            /\ (fn = "Robust::SendMidiNote" /\ a = <<16, 60, 127>>) =>
                 exc.what = <<"Channel", " Current: ", "16", " Max: ", "15">>

\* C5 witness: Robust::SendMidiNote(h, 16, 60, 127) has raised its range error.
C5_Witness ==
    /\ CallerDone
    /\ CallerStmt = SendStmt("Robust::SendMidiNote", <<16, 60, 127>>)
    /\ exc.type = "std::invalid_argument"

\* C4 (as claimed): on every sender, checked or not, and for every 8-bit argument, no
\* message reaches midiOutShortMsg whose byte 0 high nibble is not the kind's signature,
\* whose byte 0 low nibble is not the channel passed, or whose data byte exceeds 127.
C4_NeverTruncatedOrWrapped ==
    CallerDone =>
        \A i \in 1..Len(ShortMsgs) :
            LET dw == ShortMsgs[i].arg
                a  == CallerStmt.args
            IN  /\ HighNibble(MsgByte(dw, 0)) =
                       (IF CallerStmt.fn \in NoteSenders THEN 9 ELSE 12)
                /\ LowNibble(MsgByte(dw, 0)) = a[1]
                /\ MsgByte(dw, 1) <= 127
                /\ MsgByte(dw, 2) <= 127

----------------------------------------------------------------------------
(* Properties of the runs of main (MidiCppConsole.cpp 243-248):             *)
(* Robust::PlayNote(), then PlayNote().                                     *)

Failed(c) == c.result # MMSYSERR_NOERROR
AllSucceeded == \A i \in 1..Len(calls) : ~Failed(calls[i])

ExitedZero    == exit.kind = "returned" /\ exit.code = 0
ExitedNonZero == exit.kind = "terminate" \/ (exit.kind = "returned" /\ exit.code # 0)

\* C6 (as claimed): when midiOutOpen returns a non-success status, an error is raised
\* and no midiOutShortMsg call follows, in Robust::PlayNote and in PlayNote alike.
C6_FailedOpenSendsNothing ==
    entry = "main" =>
        \A i \in 1..Len(calls) :
            (calls[i].op = "midiOutOpen" /\ Failed(calls[i])) =>
                /\ Thrown(exc)
                /\ \A j \in (i + 1)..Len(calls) : calls[j].op # "midiOutShortMsg"

\* C7 (as claimed): whenever a platform call (open, send, close) returns a non-success
\* status, an error carrying that status is raised at once and no further platform call
\* is made, in Robust::PlayNote and in PlayNote alike.
C7_EveryStatusChecked ==
    entry = "main" =>
        \A i \in 1..Len(calls) :
            Failed(calls[i]) =>
                /\ i = Len(calls)
                /\ Thrown(exc)
                /\ exc.what = <<"Midi Error: ", ToString(calls[i].result)>>

\* The four bytes of a DWORD message.
Bytes(dw) == <<MsgByte(dw, 0), MsgByte(dw, 1), MsgByte(dw, 2), MsgByte(dw, 3)>>

\* The k-th platform call of one PlayNote invocation whose calls so far are seg.
PlayNoteCall(seg, k) ==
    CASE k = 1 -> /\ seg[1].op = "midiOutOpen"
                  /\ seg[1].arg = 0
      [] k = 2 -> /\ seg[2].op = "midiOutShortMsg"
                  /\ seg[2].handle = seg[1].handle
                  /\ Bytes(seg[2].arg) = <<192, 0, 0, 0>>
      [] k = 3 -> /\ seg[3].op = "midiOutShortMsg"
                  /\ seg[3].handle = seg[1].handle
                  /\ Bytes(seg[3].arg) = <<144, 60, 127, 0>>
      [] k = 4 -> /\ seg[4].op = "sleep_for"
                  /\ seg[4].arg = 3000
      [] k = 5 -> /\ seg[5].op = "midiOutShortMsg"
                  /\ seg[5].handle = seg[1].handle
                  /\ Bytes(seg[5].arg) = <<144, 60, 0, 0>>
      [] k = 6 -> /\ seg[6].op = "midiOutClose"
                  /\ seg[6].handle = seg[1].handle

\* C8: while every platform call succeeds, what each PlayNote invocation has done is a
\* prefix of: open of device 0; ProgramChange(channel 0, instrument 0); NoteOn(0, 60,
\* 127); the delay; NoteOn(0, 60, 0); close - so the silencing message never precedes
\* the delay nor the close the silencing message - and the invocation returns only
\* after all six: Robust::PlayNote has made 6 calls when it returns, and main 12.
C8_PlayNoteSequence ==
    (entry = "main" /\ AllSucceeded) =>
        /\ Len(calls) <= 12
        /\ \A i \in 1..Len(calls) :
               LET first == 6 * ((i - 1) \div 6) + 1
               IN  /\ PlayNoteCall(SubSeq(calls, first, i), i - first + 1)
                   /\ calls[first].handle = (i - 1) \div 6 + 1
        /\ (Running /\ Len(stack) = 1 /\ stack[1].pc = 2) => Len(calls) = 6
        /\ ExitedZero => Len(calls) = 12
        /\ ~ExitedNonZero

\* C8 witness: main has returned after two complete playbacks.
C8_Witness ==
    /\ entry = "main"
    /\ AllSucceeded
    /\ ExitedZero
    /\ Len(calls) = 12

\* C9 (as claimed): midiOutShortMsg is only ever called on a handle that a successful
\* midiOutOpen returned and that midiOutClose has not yet been called on.
C9_SendOnlyWhileOpen ==
    entry = "main" =>
        \A j \in 1..Len(calls) :
            calls[j].op = "midiOutShortMsg" =>
                /\ \E i \in 1..(j - 1) :
                       /\ calls[i].op = "midiOutOpen"
                       /\ ~Failed(calls[i])
                       /\ calls[i].handle = calls[j].handle
                /\ \A k \in 1..(j - 1) :
                       ~(calls[k].op = "midiOutClose" /\ calls[k].handle = calls[j].handle)

\* C10 (as claimed): once the program has ended, its exit code is 0 exactly when
\* every platform call of the run succeeded, and non-zero when any of them failed.
C10_ExitCodeReportsFailure ==
    (entry \in {"main", "main_B"} /\ exit.kind # "running") =>
        /\ AllSucceeded => ExitedZero
        /\ ~AllSucceeded => ExitedNonZero

----------------------------------------------------------------------------
(* Failure after a successful open. *)

\* C11: in Robust::PlayNote (calls 1..6 of main) and in the main of part_002, once the
\* open has succeeded, a failed midiOutShortMsg is the last platform call made: the
\* exception is in flight or has ended the process, midiOutClose is never called and
\* the session is still Open.
C11_FailureSkipsRest ==
    entry \in {"main", "main_P2"} =>
        \A i \in 2..Len(calls) :
            ( /\ entry = "main" => i <= 6
              /\ calls[1].op = "midiOutOpen"
              /\ ~Failed(calls[1])
              /\ calls[i].op = "midiOutShortMsg"
              /\ Failed(calls[i]) ) =>
                /\ i = Len(calls)
                /\ Thrown(exc)
                /\ ~ExitedZero
                /\ session[calls[1].handle] = "Open"

\* C11 witness: the silencing NoteOn of Robust::PlayNote failed and the exception has
\* left main with the session open.
C11_Witness ==
    /\ entry = "main"
    /\ exit.kind = "terminate"
    /\ Len(calls) = 5
    /\ calls[5].op = "midiOutShortMsg"
    /\ Failed(calls[5])
    /\ session = <<"Open">>

----------------------------------------------------------------------------
(* Sessions and the notes played over them. *)

\* The midiOutShortMsg calls issued on handle h among the first n platform calls.
SendsOn(h, n) ==
    SelectSeq(SubSeq(calls, 1, n),
              LAMBDA c : c.op = "midiOutShortMsg" /\ c.handle = h)

MsgChannel(c)     == LowNibble(MsgByte(c.arg, 0))
IsProgramChange(c) == HighNibble(MsgByte(c.arg, 0)) = 12
IsNoteOn(c)        == HighNibble(MsgByte(c.arg, 0)) = 9 /\ MsgByte(c.arg, 2) > 0
IsSilence(c)       == HighNibble(MsgByte(c.arg, 0)) = 9 /\ MsgByte(c.arg, 2) = 0

\* ms is n notes on channels 0..n-1: the n ProgramChanges, then for each channel in
\* turn its NoteOn and the velocity-0 NoteOn of the same pitch.
NotesCarried(ms, n) ==
    /\ Len(ms) = 3 * n
    /\ \A k \in 0..(n - 1) :
         /\ IsProgramChange(ms[k + 1])
         /\ MsgChannel(ms[k + 1]) = k
         /\ IsNoteOn(ms[n + 2 * k + 1])
         /\ MsgChannel(ms[n + 2 * k + 1]) = k
         /\ IsSilence(ms[n + 2 * k + 2])
         /\ MsgChannel(ms[n + 2 * k + 2]) = k
         /\ MsgByte(ms[n + 2 * k + 2].arg, 1) = MsgByte(ms[n + 2 * k + 1].arg, 1)

SuccessfulClose(c) == c.op = "midiOutClose" /\ ~Failed(c)

OpenSessions == {h \in 1..Len(session) : session[h] = "Open"}

\* C13 (as claimed): every session a program closes has carried exactly one note (one
\* ProgramChange, one NoteOn, its silencing NoteOn), and no two sessions are ever open
\* at the same time.
C13_OneNotePerSession ==
    entry \in Mains =>
        /\ \A i \in 1..Len(calls) :
               SuccessfulClose(calls[i]) =>
                   NotesCarried(SendsOn(calls[i].handle, i), 1)
        /\ Cardinality(OpenSessions) <= 1

\* The number of notes the entry point plays over one session.
NotesPerSession == IF entry \in {"main_B", "main_P2"} THEN 2 ELSE 1

\* C13 (amended): a session closed by a PlayNote invocation (Robust::PlayNote, PlayNote,
\* the main of part_001) has had exactly one note issued on it; a session closed by a
\* two-note main (part_002, MidiCppConsole.cpp 368-404) has had exactly two, on channels
\* 0 and 1; and no two sessions are ever open at the same time.
C13_NotesPerSession ==
    entry \in Mains =>
        /\ \A i \in 1..Len(calls) :
               SuccessfulClose(calls[i]) =>
                   NotesCarried(SendsOn(calls[i].handle, i), NotesPerSession)
        /\ Cardinality(OpenSessions) <= 1

\* C13 witness: the main of part_002 has closed its one session after two notes.
C13_Witness ==
    /\ entry = "main_P2"
    /\ ExitedZero
    /\ Len(calls) = 10
    /\ SuccessfulClose(calls[10])
    /\ session = <<"Closed">>

----------------------------------------------------------------------------
(* A rejected call followed by another call on the same session. *)

\* How far a "retrier" run has come: 1 before or in the first call, 2 after the first
\* call, 3 after the second.
RetrierPc == stack[1].pc

\* The bytes of the message a sender builds from in-range arguments.
ExpectedBytes(fn, a) ==
    IF fn \in NoteSenders THEN <<144 + a[1], a[2], a[3], 0>>
    ELSE <<192 + a[1], a[2], 0, 0>>

\* C14: a checked send rejected with a range error on an Open session leaves the
\* session Open and the list of platform calls as it was, and the in-range send that
\* follows it on the same session hands its message to midiOutShortMsg, ending without
\* an error when the platform accepts it.
C14_RangeErrorRecoverable ==
    (entry = "retrier" /\ ~InRange(request.first.args)) =>
        /\ session = <<"Open">>
        /\ RetrierPc = 1 =>
             /\ calls = <<OpenCall(1, 0, MMSYSERR_NOERROR)>>
             /\ Thrown(exc) => exc.type \in RangeErrors
        /\ (RetrierPc = 2 /\ ~Thrown(exc)) =>
             calls = <<OpenCall(1, 0, MMSYSERR_NOERROR)>>
        /\ (RetrierPc = 3 \/ (RetrierPc = 2 /\ Thrown(exc))) =>
             /\ Len(calls) = 2
             /\ calls[2].op = "midiOutShortMsg"
             /\ calls[2].handle = 1
             /\ Bytes(calls[2].arg) = ExpectedBytes(request.then.fn, request.then.args)
        /\ (RetrierPc = 2 /\ Thrown(exc)) =>
             /\ Failed(calls[2])
             /\ exc.type \notin RangeErrors

\* C14 witness: Robust::SendMidiNote(h, 16, 60, 127) was rejected, and
\* Robust::SendMidiNote(h, 15, 127, 127) has then been transmitted on the same session.
C14_Witness ==
    /\ entry = "retrier"
    /\ request.first = SendStmt("Robust::SendMidiNote", <<16, 60, 127>>)
    /\ request.then = SendStmt("Robust::SendMidiNote", <<15, 127, 127>>)
    /\ RetrierPc = 3
    /\ ~Thrown(exc)
    /\ Len(calls) = 2
    /\ ~Failed(calls[2])
    /\ session = <<"Open">>

----------------------------------------------------------------------------
(* Order of validation. *)

\* The first argument, in declaration order, that exceeds its maximum.
FirstViolation(args) ==
    CHOOSE k \in 1..Len(args) :
        /\ args[k] > ArgMax(k)
        /\ \A j \in 1..(k - 1) : args[j] <= ArgMax(j)

\* C15: a checked sender validates the channel first, then its first data field
\* (pitch or instrument), then the velocity, all before the platform call: when
\* several fields are out of range the one error raised names the first of them in
\* that order and its value, and midiOutShortMsg has not been called.
C15_ValidationOrder ==
    (CallerDone /\ CallerStmt.fn \in CheckedSenders /\ ~InRange(CallerStmt.args)) =>
        LET a == CallerStmt.args
            k == FirstViolation(a)
        IN  /\ exc.type \in RangeErrors
            /\ Len(exc.what) = 5
            /\ exc.what[1] = ArgName(CallerStmt.fn, k)
            /\ Labelled(exc.what, " Current: ", ToString(a[k]))
            /\ Labelled(exc.what, " Max: ", ToString(ArgMax(k)))
            /\ ShortMsgs = <<>>

\* C15 witness: Robust::SendMidiNote(h, 16, 128, 128), all three fields out of range,
\* has been rejected for its channel.
C15_Witness ==
    /\ CallerDone
    /\ CallerStmt = SendStmt("Robust::SendMidiNote", <<16, 128, 128>>)
    /\ exc.what[1] = "Channel"
    /\ ShortMsgs = <<>>

----------------------------------------------------------------------------
(* The unchecked and the checked path side by side. *)

\* The checked counterpart of an unchecked sender.
CheckedOf(fn) ==
    CASE fn = "SendMidiNote"            -> "Robust::SendMidiNote"
      [] fn = "SelectMidiInstrument"    -> "Robust::SelectMidiInstrument"
      [] fn = "SendMidiNote_P1"         -> "SendMidiNote_P2"
      [] fn = "SelectMidiInstrument_P1" -> "SetMidiInstrument_P2"

UncheckedSenders == (NoteSenders \cup InstrumentSenders) \ CheckedSenders

\* Two platform calls that differ at most in the session they address.
SameCall(a, b) ==
    /\ a.op = b.op
    /\ a.arg = b.arg
    /\ a.result = b.result
    /\ (a.handle = NoHandle) <=> (b.handle = NoHandle)

\* C16: when every platform call succeeds, PlayNote hands the platform the same
\* sequence of calls, with the same message bytes, as Robust::PlayNote did before it,
\* each on its own session; and for in-range arguments an unchecked sender makes the
\* very platform call its checked counterpart makes, and ends like it without an error.
C16_PathsEquivalent ==
    /\ (entry = "main" /\ AllSucceeded) =>
         \A i \in 7..Len(calls) :
             /\ SameCall(calls[i - 6], calls[i])
             /\ (calls[i - 6].handle = calls[1].handle) <=> (calls[i].handle = calls[7].handle)
             /\ calls[i].op = "midiOutShortMsg" =>
                  Bytes(calls[i].arg) = Bytes(calls[i - 6].arg)
    /\ ( /\ CallerDone
         /\ CallerStmt.fn \in UncheckedSenders
         /\ InRange(CallerStmt.args)
         /\ AllSucceeded ) =>
         LET checked == CallSender(CheckedOf(CallerStmt.fn), stack[1].hMidiOut,
                                   CallerStmt.args, MMSYSERR_NOERROR)
         IN  /\ ~Thrown(exc)
             /\ ~Thrown(checked.exc)
             /\ calls = <<calls[1]>> \o checked.calls

\* C16 witness: main has run Robust::PlayNote and then PlayNote to the end, every
\* platform call succeeding, over two sessions.
C16_Witness ==
    /\ entry = "main"
    /\ AllSucceeded
    /\ Len(calls) = 12
    /\ calls[12].op = "midiOutClose"
    /\ session = <<"Closed", "Closed">>

----------------------------------------------------------------------------
(* Notes still sounding at close. *)

\* The messages the platform accepted on handle h among the first n platform calls.
TransmittedOn(h, n) == SelectSeq(SendsOn(h, n), LAMBDA c : ~Failed(c))

\* C17 (as claimed): at every midiOutClose call, every NoteOn with non-zero velocity
\* transmitted on that session has been followed by a transmitted NoteOn of the same
\* channel and pitch with velocity 0, and every NoteOn on a channel was preceded on
\* that session by a transmitted ProgramChange for that channel.
C17_NoNoteLeftSounding ==
    entry \in Mains =>
        \A i \in 1..Len(calls) :
            calls[i].op = "midiOutClose" =>
                LET ms == TransmittedOn(calls[i].handle, i)
                IN  \A j \in 1..Len(ms) :
                        /\ IsNoteOn(ms[j]) =>
                             \E k \in (j + 1)..Len(ms) :
                                 /\ IsSilence(ms[k])
                                 /\ MsgChannel(ms[k]) = MsgChannel(ms[j])
                                 /\ MsgByte(ms[k].arg, 1) = MsgByte(ms[j].arg, 1)
                        /\ (IsNoteOn(ms[j]) \/ IsSilence(ms[j])) =>
                             \E k \in 1..(j - 1) :
                                 /\ IsProgramChange(ms[k])
                                 /\ MsgChannel(ms[k]) = MsgChannel(ms[j])

====
